---- MODULE Spec2Model ----
(***************************************************************************)
(* A model of src/main.py (astrbot_plugin_alter): the UserManager record   *)
(* store (users.json / config.json), the command handlers of               *)
(* UserManagementPlugin, the settings surface and the daily reminder loop. *)
(*                                                                         *)
(* Time is counted in ticks; TicksPerDay ticks make one calendar day, and  *)
(* tick 0 of a day is exactly midnight.  datetime.now() is the variable    *)
(* now; a "%Y-%m-%d" string is a record [k, d]: k = "ok" for a string that *)
(* strptime parses, d the day it denotes, k = "bad" for one that raises    *)
(* ValueError.                                                             *)
(***************************************************************************)
EXTENDS Integers, Sequences, FiniteSets, TLC

\* ------------------------------------------------------------------ bounds
TicksPerDay == 2
MaxTime == 3
MaxExpire == 7
MaxLoops == 2

\* ------------------------------------------------------------ the domains
Ids == {"u1", "u2"}
NoAt == "none"

\* the command tokens of process_message ("/yhm", "/续时", "/查看到期时间",
\* "/用户列表", "/帮助"), with ASCII names for the localized ones
CmdYhm == "/yhm"
CmdExtend == "/xushi"
CmdCheck == "/chakandaoqishijian"
CmdList == "/yonghuliebiao"
CmdHelp == "/bangzhu"

VARIABLES
  now,        \* datetime.now(), in ticks
  usersFile,  \* users.json: [kind |-> "json" | "malformed", data |-> id -> record]
  configFile, \* config.json: [kind |-> "json" | "malformed", data |-> config]
  config,     \* self.config
  admins,     \* self.admins
  running,    \* self.reminder_task_running
  loops,      \* the start_reminder_task coroutines, by slot
  sentDay,    \* the notices dispatched on the current calendar day
  last        \* the most recent call and what it returned

vars == <<now, usersFile, configFile, config, admins, running, loops,
          sentDay, last>>

\* ------------------------------------------------------------- date strings
Day(t) == t \div TicksPerDay

\* datetime.strftime(t, "%Y-%m-%d")
Strftime(t) == [k |-> "ok", d |-> Day(t)]

\* datetime.strptime(s, "%Y-%m-%d") raises ValueError
StrptimeFails(s) == s.k = "bad"

\* datetime.strptime(s, "%Y-%m-%d"): midnight of the day
Strptime(s) == s.d * TicksPerDay

\* timedelta(days=n)
Days(n) == n * TicksPerDay

\* timedelta.days of the difference a - b: the floor of whole days
DeltaDays(a, b) == (a - b) \div TicksPerDay

Max(a, b) == IF a >= b THEN a ELSE b

BadDate == [k |-> "bad", d |-> 0]
OkDate(d) == [k |-> "ok", d |-> d]

\* a string strptime parses as day d but strftime never writes, such as
\* "2024-1-8" for "2024-01-08"
LooseDate(d) == [k |-> "loose", d |-> d]

\* ------------------------------------------------------------ the documents
EmptyUsers == [u \in {} |-> 0]

JsonDoc(data) == [kind |-> "json", data |-> data]
MalformedDoc == [kind |-> "malformed", data |-> EmptyUsers]

\* a load_users that returns {} whatever the document holds
load_users_empty(file) == EmptyUsers

\* UserManager.load_users: {} on a document that does not parse
load_users(file) == IF file.kind = "json" THEN file.data ELSE EmptyUsers

\* UserManager.save_users: the document now holds users_data
save_users(users_data) == JsonDoc(users_data)

\* the default configuration of ensure_files
DefaultConfig ==
  [admins |-> <<>>, reminder_enabled |-> TRUE, expired_check_days |-> 1]

\* what load_config returns for a document that does not parse
FallbackConfig == [admins |-> <<>>, reminder_enabled |-> TRUE]

\* UserManager.load_config
load_config(file) == IF file.kind = "json" THEN file.data ELSE FallbackConfig

\* UserManager.save_config
save_config(config_data) == JsonDoc(config_data)

\* config.get("admins", [])
GetAdmins(c) == IF "admins" \in DOMAIN c THEN c.admins ELSE <<>>

\* config.get("reminder_enabled", True)
GetReminderEnabled(c) ==
  IF "reminder_enabled" \in DOMAIN c THEN c.reminder_enabled ELSE TRUE

\* a configuration that is valid JSON but no object (a list): config.get
\* raises AttributeError on it
ListConfig == [not_a_dict |-> "list"]
GetRaises(c) == c = ListConfig

Range(s) == {s[i] : i \in 1..Len(s)}

\* an is_admin that lets everyone through
is_admin_anyone(user_id) == TRUE

\* UserManagementPlugin.is_admin
is_admin(user_id) == user_id \in Range(admins)


\* ------------------------------------------------- UserManager.add_or_update_user
NoName == "None"

\* the record of a new user (main.py 78-82)
NewRecord(username, extend_days, t) ==
  [platform_username |-> IF username = NoName THEN "" ELSE username,
   start_date |-> Strftime(t),
   expire_date |-> IF extend_days > 0 THEN Strftime(t + Days(extend_days))
                                       ELSE Strftime(t)]

\* start_from without the max: always from now, or always from the stored date
StartFromNow(current_expire, t) == t
StartFromStored(current_expire, t) == current_expire

\* start_from = max(current_expire, datetime.now())
StartFrom(current_expire, t) == Max(current_expire, t)

\* the new expire_date of an existing record, extend_days > 0 (main.py 88-96)
ExtendedExpire(expire_date, extend_days, t) ==
  IF StrptimeFails(expire_date)
    THEN Strftime(t + Days(extend_days))
    ELSE Strftime(StartFrom(Strptime(expire_date), t) + Days(extend_days))

\* an upsert that works on a mapping loaded before any record was written
add_or_update_user_stale(users, user_id, username, extend_days, t) ==
  [u \in {user_id} |-> NewRecord(username, extend_days, t)]

\* an upsert that writes the record of a known id anew
add_or_update_user_anew(users, user_id, username, extend_days, t) ==
  [u \in DOMAIN users \cup {user_id} |->
     IF u = user_id THEN NewRecord(username, extend_days, t) ELSE users[u]]

\* the users mapping add_or_update_user saves (and whose entry it returns)
add_or_update_user(users, user_id, username, extend_days, t) ==
  IF user_id \notin DOMAIN users
    THEN [u \in DOMAIN users \cup {user_id} |->
            IF u = user_id THEN NewRecord(username, extend_days, t) ELSE users[u]]
    ELSE [users EXCEPT ![user_id] =
            [@ EXCEPT !.platform_username =
                        IF username # NoName THEN username ELSE @,
                      !.expire_date =
                        IF extend_days > 0
                          THEN ExtendedExpire(@, extend_days, t) ELSE @]]

\* UserManager.get_user_info: users.get(user_id)
HasRecord(file, user_id) == user_id \in DOMAIN load_users(file)
get_user_info(file, user_id) == load_users(file)[user_id]

\* ------------------------------------------------------------ the messages
\* A message is the sequence message_parts of its whitespace-separated tokens.
\* A token is a word, a decimal number int() accepts, a structured mention
\* [CQ:at,qq=id] or a bare mention @id.
Word(s) == [k |-> "word", n |-> 0, s |-> s]
Num(n) == [k |-> "num", n |-> n, s |-> ""]
Cq(id) == [k |-> "cq", n |-> 0, s |-> id]
At(id) == [k |-> "at", n |-> 0, s |-> id]

MinOf(S) == CHOOSE i \in S : \A j \in S : i <= j

\* UserManagementPlugin.extract_at_user: the structured form first, then @id
extract_at_user(parts) ==
  LET cq == {i \in 1..Len(parts) : parts[i].k = "cq"}
      at == {i \in 1..Len(parts) : parts[i].k = "at"}
  IN  IF cq # {} THEN parts[MinOf(cq)].s
      ELSE IF at # {} THEN parts[MinOf(at)].s
      ELSE NoAt

\* str.lower() of the command token
Lower(s) == IF s = "/YHM" THEN "/yhm" ELSE s

\* the text of a token, as stored for a username
TokenText(tok) ==
  IF tok.k = "word" THEN tok.s
  ELSE IF tok.k = "num" THEN "digits"
  ELSE "mention"

\* int(token) raises ValueError
IntFails(tok) == tok.k # "num"

\* --------------------------------------------------------------- responses
Resp(kind) == [kind |-> kind, status |-> "", n |-> 0, date |-> BadDate,
               list |-> EmptyUsers]

\* the three-state text of check-expiry and list-users (main.py 233-245, 298-309)
StatusOf(expire_date, t) ==
  IF StrptimeFails(expire_date) THEN [status |-> "date_error", n |-> 0]
  ELSE LET days_left == DeltaDays(Strptime(expire_date), t)
       IN  IF days_left > 0 THEN [status |-> "days_left", n |-> days_left]
           ELSE IF days_left = 0 THEN [status |-> "today", n |-> 0]
           ELSE [status |-> "expired", n |-> -days_left]

\* Each handler gives [resp, file]: what it returns and users.json after it.
Out(resp, file) == [resp |-> resp, file |-> file]

\* UserManagementPlugin.handle_yhm_command
handle_yhm_command(parts, sender_id, file, t) ==
  IF ~is_admin(sender_id) THEN Out(Resp("denied"), file)
  ELSE IF Len(parts) < 2 THEN Out(Resp("yhm_format"), file)
  ELSE IF extract_at_user(parts) = NoAt THEN Out(Resp("need_at"), file)
  ELSE Out(Resp("yhm_ok"),
           save_users(add_or_update_user(load_users(file), extract_at_user(parts),
                                         TokenText(parts[2]), 0, t)))

\* an extend that does not look at the sign of the day count
handle_extend_time_command_anydays(parts, sender_id, file, t) ==
  IF ~is_admin(sender_id) THEN Out(Resp("denied"), file)
  ELSE IF Len(parts) < 2 THEN Out(Resp("extend_format"), file)
  ELSE IF IntFails(parts[2]) THEN Out(Resp("days_not_number"), file)
  ELSE IF extract_at_user(parts) = NoAt THEN Out(Resp("need_at"), file)
  ELSE LET target == extract_at_user(parts)
           users == add_or_update_user(load_users(file), target, NoName,
                                       parts[2].n, t)
       IN  Out([Resp("extend_ok") EXCEPT !.n = parts[2].n,
                                         !.date = users[target].expire_date],
               save_users(users))

\* UserManagementPlugin.handle_extend_time_command
handle_extend_time_command(parts, sender_id, file, t) ==
  IF ~is_admin(sender_id) THEN Out(Resp("denied"), file)
  ELSE IF Len(parts) < 2 THEN Out(Resp("extend_format"), file)
  ELSE IF IntFails(parts[2]) THEN Out(Resp("days_not_number"), file)
  ELSE IF parts[2].n <= 0 THEN Out(Resp("days_not_positive"), file)
  ELSE IF extract_at_user(parts) = NoAt THEN Out(Resp("need_at"), file)
  ELSE LET target == extract_at_user(parts)
           users == add_or_update_user(load_users(file), target, NoName,
                                       parts[2].n, t)
       IN  Out([Resp("extend_ok") EXCEPT !.n = parts[2].n,
                                         !.date = users[target].expire_date],
               save_users(users))

\* a check-expiry that creates the record it does not find
handle_check_expire_command_upsert(sender_id, file, t) ==
  IF ~HasRecord(file, sender_id)
    THEN Out(Resp("no_record"),
             save_users(add_or_update_user(load_users(file), sender_id, NoName, 0, t)))
    ELSE Out(Resp("status"), file)

\* UserManagementPlugin.handle_check_expire_command
handle_check_expire_command(sender_id, file, t) ==
  IF ~HasRecord(file, sender_id) THEN Out(Resp("no_record"), file)
  ELSE LET st == StatusOf(get_user_info(file, sender_id).expire_date, t)
       IN  Out([Resp("status") EXCEPT !.status = st.status, !.n = st.n,
                  !.date = get_user_info(file, sender_id).expire_date], file)

\* UserManagementPlugin.get_user_list
get_user_list(file, t) ==
  LET users == load_users(file)
  IN  IF DOMAIN users = {} THEN Out(Resp("list_empty"), file)
      ELSE Out([Resp("list") EXCEPT
                  !.list = [u \in DOMAIN users |-> StatusOf(users[u].expire_date, t)]],
               file)

\* UserManagementPlugin.get_help_text
get_help_text(sender_id, file) ==
  Out([Resp("help") EXCEPT !.status = IF is_admin(sender_id) THEN "admin" ELSE "user"],
      file)

\* UserManagementPlugin.process_message
process_message(parts, sender_id, file, t) ==
  IF Len(parts) = 0 THEN Out(Resp("none"), file)
  ELSE LET command == Lower(parts[1].s)
       IN  IF command = CmdYhm THEN handle_yhm_command(parts, sender_id, file, t)
           ELSE IF command = CmdExtend
             THEN handle_extend_time_command(parts, sender_id, file, t)
           ELSE IF command = CmdCheck
             THEN handle_check_expire_command(sender_id, file, t)
           ELSE IF command = CmdList /\ is_admin(sender_id)
             THEN get_user_list(file, t)
           ELSE IF command = CmdHelp THEN get_help_text(sender_id, file)
           ELSE Out(Resp("none"), file)


\* ------------------------------------------------------- the exact-date scans
\* a scan that takes every date up to target_date instead of that date alone
get_users_by_expire_date_range(file, target_date) ==
  {u \in DOMAIN load_users(file) :
     /\ load_users(file)[u].expire_date.k = "ok"
     /\ load_users(file)[u].expire_date.d <= target_date.d}

\* a scan that compares the day numbers and not the strings
get_users_by_expire_date_day(file, target_date) ==
  {u \in DOMAIN load_users(file) : load_users(file)[u].expire_date.d = target_date.d}

\* UserManager.get_users_by_expire_date: string equality with target_date
get_users_by_expire_date(file, target_date) ==
  {u \in DOMAIN load_users(file) : load_users(file)[u].expire_date = target_date}

\* UserManager.get_expiring_users
get_expiring_users(file, days_before, t) ==
  get_users_by_expire_date(file, Strftime(t + Days(days_before)))

\* a get_expired_users that looks days_after ahead
get_expired_users_ahead(file, days_after, t) ==
  get_users_by_expire_date(file, Strftime(t + Days(days_after)))

\* UserManager.get_expired_users
get_expired_users(file, days_after, t) ==
  get_users_by_expire_date(file, Strftime(t - Days(days_after)))

\* The scans walk users.items(); the model walks the matching ids in one fixed
\* order.  An item is (user_id, user_info) as the scan's list holds it: the id,
\* the expire_date of user_info, and the day the list was computed.
IdOrder == <<"u1", "u2">>
ListOf(S) == SelectSeq(IdOrder, LAMBDA u : u \in S)
Items(S, file, t) ==
  [i \in 1..Len(ListOf(S)) |->
     [user |-> ListOf(S)[i],
      exp |-> load_users(file)[ListOf(S)[i]].expire_date,
      day |-> Day(t)]]
NoItem == [user |-> NoAt, exp |-> BadDate, day |-> 0]

\* ------------------------------------------------------------ settings save
\* a save_settings that stores the config before it parses users_json
save_settings_config_first(settings_data) ==
  [success |-> ~("users_json" \in DOMAIN settings_data
                   /\ ~settings_data.users_json.valid),
   kind |-> IF "users_json" \in DOMAIN settings_data
                 /\ ~settings_data.users_json.valid
              THEN "json_error" ELSE "saved",
   usersFile |-> IF "users_json" \in DOMAIN settings_data
                      /\ settings_data.users_json.valid
                   THEN save_users(settings_data.users_json.data) ELSE usersFile,
   configFile |-> IF "config" \in DOMAIN settings_data
                    THEN save_config(settings_data.config) ELSE configFile,
   config |-> IF "config" \in DOMAIN settings_data
                THEN settings_data.config ELSE config,
   admins |-> IF "config" \in DOMAIN settings_data
                THEN GetAdmins(settings_data.config) ELSE admins]

\* UserManagementPlugin.save_settings.  settings_data holds "users_json" (a
\* blob [valid, data]) and "config", each optional.  json.loads of an invalid
\* blob raises before anything is written; config.get of a config that is no
\* object raises after config.json and self.config were written.
save_settings(settings_data) ==
  IF "users_json" \in DOMAIN settings_data /\ ~settings_data.users_json.valid
    THEN [success |-> FALSE, kind |-> "json_error",
          usersFile |-> usersFile, configFile |-> configFile,
          config |-> config, admins |-> admins]
    ELSE [success |-> ~("config" \in DOMAIN settings_data
                          /\ GetRaises(settings_data.config)),
          kind |-> IF "config" \in DOMAIN settings_data
                        /\ GetRaises(settings_data.config)
                     THEN "save_failed" ELSE "saved",
          usersFile |-> IF "users_json" \in DOMAIN settings_data
                          THEN save_users(settings_data.users_json.data)
                          ELSE usersFile,
          configFile |-> IF "config" \in DOMAIN settings_data
                           THEN save_config(settings_data.config) ELSE configFile,
          config |-> IF "config" \in DOMAIN settings_data
                       THEN settings_data.config ELSE config,
          admins |-> IF "config" \in DOMAIN settings_data
                          /\ ~GetRaises(settings_data.config)
                       THEN GetAdmins(settings_data.config) ELSE admins]

\* ---------------------------------------------------------- the reminder loop
Slots == 1..MaxLoops
Group == "group"

\* a start_reminder_task coroutine: where it is suspended (pc), the users and
\* admins its for loops have still to visit, when its sleep ends, the notices
\* it has dispatched in the current scan, and whether stop_reminder_task was
\* called while it ran (stopped) and it began an iteration after that
\* (rescanned), whether its last finished iteration ended in an exception
\* (raised), the users of the expired_users list of the current iteration
\* (plan) and, for each of them whose turn has come, the list the for loop
\* over self.admins walks (turns)
IdleLoop == [pc |-> "unused", pending |-> <<>>, cur |-> NoItem, admq |-> <<>>,
             wake |-> 0, sent |-> {}, dup |-> FALSE,
             stopped |-> FALSE, rescanned |-> FALSE, raised |-> FALSE,
             plan |-> {}, turns |-> {}]

\* a dispatched notice: the offset of its scan, the item it is about and the
\* recipient
Notice(off, item, rcpt) ==
  [off |-> off, user |-> item.user, rcpt |-> rcpt, exp |-> item.exp,
   day |-> item.day]

\* one step of a coroutine gives [lp, msgs]: its record at the next suspension
\* and the notice handed to the host on the way (at most one)
Go(lp, msgs) == [lp |-> lp, msgs |-> msgs]

Dispatched(lp, m) ==
  [lp EXCEPT !.sent = @ \cup {m},
             !.dup = @ \/ \E x \in lp.sent :
                              x.off = m.off /\ x.user = m.user /\ x.rcpt = m.rcpt]

\* await asyncio.sleep(24 * 60 * 60)
GoSleep(lp, t) ==
  Go([lp EXCEPT !.pc = "sleep", !.pending = <<>>, !.cur = NoItem, !.admq = <<>>,
                !.wake = t + Days(1), !.sent = {}, !.dup = FALSE,
                !.raised = FALSE, !.plan = {}, !.turns = {}], <<>>)

\* an exception that ends the coroutine
Uncaught(lp, t) == Go(IdleLoop, <<>>)

\* except Exception in start_reminder_task: the error is logged and the loop
\* goes on to its sleep (main.py 344-348)
Caught(lp, t) == Go([GoSleep(lp, t).lp EXCEPT !.raised = TRUE], <<>>)

\* await self.send_private_message(admin_id, message) (main.py 383-388)
SendPrivate(lp, item, rest, admin_ids) ==
  Go([Dispatched(lp, Notice(-1, item, Head(admin_ids))) EXCEPT
        !.pc = "sendP", !.pending = rest, !.cur = item, !.admq = Tail(admin_ids)],
     <<Notice(-1, item, Head(admin_ids))>>)

\* the for loop over expired_users, from its next user on: every user gets the
\* for loop over self.admins as it is then
NextExpired(lp, items, t) ==
  IF items = <<>> \/ admins = <<>> THEN GoSleep(lp, t)
  ELSE SendPrivate([lp EXCEPT !.turns = @ \cup {[user |-> Head(items).user,
                                                  adms |-> admins]}],
                   Head(items), Tail(items), admins)

\* an offset of the expired scan taken from the configuration in memory
ExpiredOffsetConfigured ==
  IF "expired_check_days" \in DOMAIN config THEN config.expired_check_days ELSE 1

\* the literal argument of get_expired_users(1) (main.py 380)
ExpiredOffset == 1

\* expired_users = get_expired_users(1) and its loop (main.py 380-388)
EnterExpired(lp, t) ==
  LET items == Items(get_expired_users(usersFile, ExpiredOffset, t), usersFile, t)
  IN  NextExpired([lp EXCEPT !.plan = {items[i].user : i \in 1..Len(items)}],
                  items, t)

\* await self.send_group_message(message) (main.py 359-366, 370-377)
SendGroup(lp, pc, off, items) ==
  Go([Dispatched(lp, Notice(off, Head(items), Group)) EXCEPT
        !.pc = pc, !.pending = Tail(items)],
     <<Notice(off, Head(items), Group)>>)

\* expiring_users_today = get_expiring_users(0) and its loop (main.py 369-377)
EnterToday(lp, t) ==
  LET items == Items(get_expiring_users(usersFile, 0, t), usersFile, t)
  IN  IF items = <<>> THEN EnterExpired(lp, t)
      ELSE SendGroup(lp, "send0", 0, items)

\* expiring_users_3days = get_expiring_users(3) and its loop (main.py 358-366)
EnterThreeDays(lp, t) ==
  LET items == Items(get_expiring_users(usersFile, 3, t), usersFile, t)
  IN  IF items = <<>> THEN EnterToday(lp, t)
      ELSE SendGroup(lp, "send3", 3, items)

\* an iteration that does not look at reminder_enabled
IterationEnabledAlways == TRUE

\* the reminder_enabled an iteration goes by: config.json as it is then
IterationEnabled == GetReminderEnabled(load_config(configFile))

\* UserManagementPlugin.check_and_send_reminders from its start to its first
\* await, or to the loop's sleep when it awaits nothing
check_and_send_reminders(lp, t) ==
  IF GetRaises(load_config(configFile)) THEN Caught(lp, t)
  ELSE IF ~IterationEnabled THEN GoSleep(lp, t)
  ELSE EnterThreeDays(lp, t)

\* a coroutine resumed at the await of a send: the rest of its for loop, then
\* the next scan
Resume(lp, t) ==
  IF lp.pc = "send3"
    THEN IF lp.pending # <<>> THEN SendGroup(lp, "send3", 3, lp.pending)
         ELSE EnterToday(lp, t)
  ELSE IF lp.pc = "send0"
    THEN IF lp.pending # <<>> THEN SendGroup(lp, "send0", 0, lp.pending)
         ELSE EnterExpired(lp, t)
  ELSE IF lp.admq # <<>> THEN SendPrivate(lp, lp.cur, lp.pending, lp.admq)
  ELSE NextExpired(lp, lp.pending, t)

\* a send whose exception leaves send_group_message / send_private_message
AfterFailedSendRaises(lp, t) == Caught(lp, t)

\* the host's send raised: send_group_message / send_private_message log the
\* error and return, and the for loop goes on (main.py 393-396, 403-406)
AfterFailedSend(lp, t) == Resume(lp, t)

\* the while loop of start_reminder_task at its test (main.py 341)
WhileRunning(lp, flag, t) ==
  IF flag
    THEN check_and_send_reminders([lp EXCEPT !.rescanned = @ \/ lp.stopped], t)
    ELSE Go(IdleLoop, <<>>)


\* ------------------------------------------------------------------ inputs
ExtendDays == {2, 3, 5}

YhmMsgs ==
  {<<Word(CmdYhm), Word("bob"), At("u1")>>,
   <<Word("/YHM"), Word("bob"), Cq("u1"), At("u2")>>,
   <<Word(CmdYhm), Word("bob")>>,
   <<Word(CmdYhm)>>}

ExtendMsgs ==
  {<<Word(CmdExtend), Num(n), At("u2")>> : n \in ExtendDays}
    \cup {<<Word(CmdExtend), Num(0), At("u1")>>,
          <<Word(CmdExtend), Word("abc"), At("u1")>>,
          <<Word(CmdExtend), Num(3)>>,
          <<Word(CmdExtend)>>}

OtherMsgs ==
  {<<Word(CmdCheck)>>, <<Word(CmdList)>>, <<Word(CmdHelp)>>, <<Word("hello")>>, <<>>}

Msgs == YhmMsgs \cup ExtendMsgs \cup OtherMsgs

UserRec(name, start, expire) ==
  [platform_username |-> name, start_date |-> start, expire_date |-> expire]

CfgAdmin == [admins |-> <<"u1">>, reminder_enabled |-> TRUE, expired_check_days |-> 1]
CfgOff == [admins |-> <<"u1", "u2">>, reminder_enabled |-> FALSE,
           expired_check_days |-> 2]
CfgBare == [reminder_enabled |-> TRUE]

InvalidBlob == [valid |-> FALSE, data |-> EmptyUsers]
Blob(data) == [valid |-> TRUE, data |-> data]

\* users documents an administrator may save through the settings surface
UsersOld == [u \in {"u2"} |-> UserRec("amy", OkDate(-20), OkDate(-10))]
UsersBad == [u \in {"u2"} |-> UserRec("bob", OkDate(0), BadDate)]

SettingsCmd ==
  {[config |-> CfgAdmin],
   [users_json |-> InvalidBlob, config |-> CfgOff],
   [users_json |-> Blob(UsersOld)],
   [users_json |-> Blob(UsersBad)]}

CfgTwo == [admins |-> <<"u1", "u2">>, reminder_enabled |-> TRUE,
           expired_check_days |-> 2]
UsersDue ==
  [u \in Ids |-> IF u = "u1" THEN UserRec("bob", OkDate(0), OkDate(3))
                             ELSE UserRec("", OkDate(0), OkDate(0))]

\* the inputs tried while the reminder loop runs
MsgsLoop == {<<Word(CmdExtend), Num(5), At("u2")>>}
SettingsLoop ==
  {[config |-> CfgTwo], [config |-> CfgOff], [users_json |-> Blob(UsersDue)]}

\* the inputs tried while the scans are looked at: two users expired
\* yesterday, a malformed and a loosely written date, check-expiry messages,
\* admin lists of one and of two ids, a configuration that is no object
UsersGone ==
  [u \in Ids |-> IF u = "u1" THEN UserRec("bob", OkDate(-3), OkDate(-1))
                             ELSE UserRec("amy", OkDate(-3), OkDate(-1))]
UsersOdd ==
  [u \in Ids |-> IF u = "u1" THEN UserRec("bob", OkDate(0), BadDate)
                             ELSE UserRec("amy", OkDate(-3), OkDate(-1))]
UsersLoose ==
  [u \in Ids |-> IF u = "u1" THEN UserRec("bob", OkDate(0), LooseDate(3))
                             ELSE UserRec("amy", OkDate(-3), LooseDate(-1))]
MsgsScan == {<<Word(CmdCheck)>>}
SettingsScan ==
  {[config |-> CfgAdmin], [config |-> CfgTwo], [config |-> ListConfig],
   [users_json |-> Blob(UsersDue)], [users_json |-> Blob(UsersGone)],
   [users_json |-> Blob(UsersOdd)], [users_json |-> Blob(UsersLoose)]}

\* the settings saved while every command is tried beside one reminder loop
SettingsAll == {[config |-> CfgAdmin], [users_json |-> Blob(UsersOld)]}

\* ---------------------------------------------------------------- the state
Call(op, cmd, wasAdmin, resp) ==
  [op |-> op, cmd |-> cmd, wasAdmin |-> wasAdmin, resp |-> resp]

\* After construction: ensure_files has written the default documents unless
\* the files were there (users.json may then hold anything); __init__ has
\* loaded the configuration and created the start_reminder_task task.
Init ==
  /\ now = 0
  /\ usersFile \in {JsonDoc(EmptyUsers), MalformedDoc}
  /\ configFile = JsonDoc(DefaultConfig)
  /\ config = load_config(configFile)
  /\ admins = GetAdmins(load_config(configFile))
  /\ running = FALSE
  /\ loops = [l \in Slots |-> IF l = 1 THEN [IdleLoop EXCEPT !.pc = "new"]
                                       ELSE IdleLoop]
  /\ sentDay = {}
  /\ last = Call("init", "", FALSE, Resp("none"))

loopVars == <<running, loops, sentDay>>

\* the clock moves on
Tick ==
  /\ now < MaxTime
  /\ now' = now + 1
  /\ sentDay' = IF Day(now + 1) # Day(now) THEN {} ELSE sentDay
  /\ UNCHANGED <<usersFile, configFile, config, admins, running, loops, last>>

ExpireCapped(file) ==
  \A u \in DOMAIN load_users(file) : load_users(file)[u].expire_date.d <= MaxExpire

\* an inbound message: process_message(message_text, sender_id)
ProcessMessage(sender_id, parts) ==
  LET out == process_message(parts, sender_id, usersFile, now)
  IN  /\ ExpireCapped(out.file)
      /\ usersFile' = out.file
      /\ last' = Call("message", IF Len(parts) = 0 THEN "" ELSE Lower(parts[1].s),
                      is_admin(sender_id), out.resp)
      /\ UNCHANGED <<now, configFile, config, admins, loopVars>>

\* the settings surface: save_settings(settings_data)
SaveSettings(settings_data) ==
  LET out == save_settings(settings_data)
  IN  /\ usersFile' = out.usersFile
      /\ configFile' = out.configFile
      /\ config' = out.config
      /\ admins' = out.admins
      /\ last' = Call("save_settings", "", FALSE,
                      Resp(out.kind))
      /\ UNCHANGED <<now, loopVars>>

DayKey(m) == [off |-> m.off, user |-> m.user, rcpt |-> m.rcpt]

\* a coroutine's step takes effect: its record, and the notice it dispatched
Apply(l, go) ==
  /\ loops' = [loops EXCEPT ![l] = go.lp]
  /\ sentDay' = sentDay \cup {DayKey(go.msgs[i]) : i \in 1..Len(go.msgs)}

\* a start that never finds the loop running
AlreadyRunningNever == FALSE

\* if self.reminder_task_running: return (main.py 335-336)
AlreadyRunning == running

\* start_reminder_task from its first line to its first await (main.py 333-348)
start_reminder_task(l) ==
  IF AlreadyRunning
    THEN /\ loops' = [loops EXCEPT ![l] = IdleLoop]
         /\ UNCHANGED <<running, sentDay>>
    ELSE /\ running' = TRUE
         /\ Apply(l, WhileRunning([IdleLoop EXCEPT !.pc = "new"], TRUE, now))

\* the task __init__ created runs for the first time
TaskBegin(l) ==
  /\ loops[l].pc = "new"
  /\ start_reminder_task(l)
  /\ UNCHANGED <<now, usersFile, configFile, config, admins, last>>

FreeSlot(l) == loops[l].pc = "unused" /\ \A k \in Slots : k < l => loops[k].pc # "unused"

\* the host calls start_reminder_task
StartReminderTask(l) ==
  /\ FreeSlot(l)
  /\ start_reminder_task(l)
  /\ last' = Call("start", "", FALSE,
                  Resp(IF AlreadyRunning THEN "start_returned" ELSE "started"))
  /\ UNCHANGED <<now, usersFile, configFile, config, admins>>

\* the host calls stop_reminder_task (main.py 410-413)
StopReminderTask ==
  /\ running' = FALSE
  /\ loops' = [l \in Slots |->
                 IF loops[l].pc \in {"send3", "send0", "sendP", "sleep"}
                   THEN [loops[l] EXCEPT !.stopped = TRUE] ELSE loops[l]]
  /\ last' = Call("stop", "", FALSE, Resp("stopped"))
  /\ UNCHANGED <<now, usersFile, configFile, config, admins, sentDay>>

\* the await of a send completes
LoopResume(l) ==
  /\ loops[l].pc \in {"send3", "send0", "sendP"}
  /\ Apply(l, Resume(loops[l], now))
  /\ UNCHANGED <<now, usersFile, configFile, config, admins, running, last>>

\* the await of a send completes with the host's send call raising
LoopResumeFailed(l) ==
  /\ loops[l].pc \in {"send3", "send0", "sendP"}
  /\ Apply(l, AfterFailedSend(loops[l], now))
  /\ last' = Call("send", "", FALSE, Resp("send_failed"))
  /\ UNCHANGED <<now, usersFile, configFile, config, admins, running>>

\* the 24-hour sleep completes and the while test is made again
LoopWake(l) ==
  /\ loops[l].pc = "sleep"
  /\ now >= loops[l].wake
  /\ Apply(l, WhileRunning(loops[l], running, now))
  /\ UNCHANGED <<now, usersFile, configFile, config, admins, running, last>>

\* ------------------------------------------------------- the specifications
\* the commands and the settings surface alone, the reminder loop not scheduled
NextCmd ==
  \/ Tick
  \/ \E s \in Ids, m \in Msgs : ProcessMessage(s, m)
  \/ \E st \in SettingsCmd : SaveSettings(st)

SpecCmd == Init /\ [][NextCmd]_vars


\* the whole plugin: the commands, the settings surface and the reminder loop
Next ==
  \/ Tick
  \/ \E s \in Ids, m \in MsgsLoop : ProcessMessage(s, m)
  \/ \E st \in SettingsLoop : SaveSettings(st)
  \/ \E l \in Slots : TaskBegin(l)
  \/ \E l \in Slots : StartReminderTask(l)
  \/ StopReminderTask
  \/ \E l \in Slots : LoopResume(l)
  \/ \E l \in Slots : LoopResumeFailed(l)
  \/ \E l \in Slots : LoopWake(l)

Spec == Init /\ [][Next]_vars

\* one reminder loop with a host whose sends may fail, check-expiry messages
\* and the settings surface
NextScan ==
  \/ Tick
  \/ \E s \in Ids, m \in MsgsScan : ProcessMessage(s, m)
  \/ \E st \in SettingsScan : SaveSettings(st)
  \/ \E l \in Slots : TaskBegin(l)
  \/ \E l \in Slots : LoopResume(l)
  \/ \E l \in Slots : LoopResumeFailed(l)
  \/ \E l \in Slots : LoopWake(l)

SpecScan == Init /\ [][NextScan]_vars

\* every command beside one reminder loop
NextAll ==
  \/ Tick
  \/ \E s \in Ids, m \in Msgs : ProcessMessage(s, m)
  \/ \E st \in SettingsAll : SaveSettings(st)
  \/ \E l \in Slots : TaskBegin(l)
  \/ \E l \in Slots : LoopResume(l)
  \/ \E l \in Slots : LoopResumeFailed(l)
  \/ \E l \in Slots : LoopWake(l)

SpecAll == Init /\ [][NextAll]_vars


\* ------------------------------------------------------------------ claims
Users == load_users(usersFile)
WellFormed(file, u) == HasRecord(file, u) /\ ~StrptimeFails(load_users(file)[u].expire_date)
ExpireDay(file, u) == load_users(file)[u].expire_date.d
Today == Day(now)

\* a step that handled a message with command token cmd: process_message is
\* the only operation that records a "message" call, and a step of it that
\* changes nothing at all is a stuttering step
MessageStep(cmd) ==
  /\ last'.op = "message"
  /\ last'.cmd = cmd
  /\ ~UNCHANGED <<usersFile, last>>

\* C1: the stored expire_date of a user never decreases from one extend to the
\* next: every step other than a settings save (the explicit reset) leaves a
\* well-formed expire_date well-formed and no earlier, and a successful extend
\* of n days leaves it at least n days after today and n days after what it
\* was, also when it was in the past.
C1_ExtendNonDecreasing ==
  [][/\ (usersFile' # usersFile /\ last'.op # "save_settings") =>
          \A u \in Ids :
            WellFormed(usersFile, u) =>
              /\ WellFormed(usersFile', u)
              /\ ExpireDay(usersFile', u) >= ExpireDay(usersFile, u)
     /\ (MessageStep(CmdExtend) /\ last'.resp.kind = "extend_ok") =>
          \A s \in Ids, m \in ExtendMsgs :
            ProcessMessage(s, m) =>
              LET u == extract_at_user(m)
              IN  /\ WellFormed(usersFile', u)
                  /\ ExpireDay(usersFile', u) >= Today + m[2].n
                  /\ WellFormed(usersFile, u) =>
                       ExpireDay(usersFile', u) >= ExpireDay(usersFile, u) + m[2].n]_vars

\* a record that expired on day -10 (start_date -20) has been extended, not at
\* midnight
C1_Witness ==
  /\ last.resp.kind = "extend_ok"
  /\ HasRecord(usersFile, "u2")
  /\ Users["u2"].start_date = OkDate(-20)
  /\ Users["u2"].expire_date = OkDate(Today + last.resp.n)
  /\ now % TicksPerDay # 0

\* the reference upsert, in calendar days
RefExpire(file, u, n, today) ==
  IF ~HasRecord(file, u) THEN OkDate(IF n > 0 THEN today + n ELSE today)
  ELSE IF n <= 0 THEN load_users(file)[u].expire_date
  ELSE IF ~WellFormed(file, u) THEN OkDate(today + n)
  ELSE OkDate(Max(ExpireDay(file, u), today) + n)

RefStart(file, u, today) ==
  IF HasRecord(file, u) THEN load_users(file)[u].start_date ELSE OkDate(today)

\* C2: add_or_update_user matches the reference upsert at every time of day:
\* an unknown id gets start_date = today and expire_date = today + n (today
\* when n <= 0), an existing well-formed record gets max(old, today) + n.
C2_MatchesReference ==
  [][(MessageStep(CmdExtend) \/ MessageStep(CmdYhm)) =>
       \A s \in Ids, m \in ExtendMsgs \cup YhmMsgs :
         (ProcessMessage(s, m) /\ last'.resp.kind \in {"extend_ok", "yhm_ok"}) =>
           LET u == extract_at_user(m)
               n == IF last'.resp.kind = "extend_ok" THEN m[2].n ELSE 0
           IN  /\ HasRecord(usersFile', u)
               /\ load_users(usersFile')[u].expire_date = RefExpire(usersFile, u, n, Today)
               /\ load_users(usersFile')[u].start_date = RefStart(usersFile, u, Today)
               /\ last'.resp.kind = "extend_ok" =>
                    last'.resp.date = RefExpire(usersFile, u, n, Today)]_vars

\* extend(+5) on day 0 then extend(+2) on day 1, not at midnight, gave day 7
C2_Witness ==
  /\ last.resp.kind = "extend_ok"
  /\ last.resp.n = 2
  /\ last.resp.date = OkDate(7)
  /\ Today = 1
  /\ now % TicksPerDay # 0
  /\ HasRecord(usersFile, "u2")
  /\ Users["u2"].start_date = OkDate(0)

AdminCmds == {CmdYhm, CmdExtend, CmdList}
AdminOnly(m) == Len(m) > 0 /\ Lower(m[1].s) \in AdminCmds
NotInAdmins(s) == \A i \in 1..Len(admins) : admins[i] # s
AdminStep == \E c \in AdminCmds : MessageStep(c)

RefStatus(expire_day, today) ==
  IF expire_day > today THEN [status |-> "days_left", n |-> expire_day - today]
  ELSE IF expire_day = today THEN [status |-> "today", n |-> 0]
  ELSE [status |-> "expired", n |-> today - expire_day]

\* C4: check-expiry renders "N days left", "expires today" or "expired N days
\* ago" by expire_date - today in whole calendar days, at every time of day,
\* and list-users renders every record the same way.
C4_ThreeStates ==
  [][/\ MessageStep(CmdCheck) =>
          \A s \in Ids :
            (ProcessMessage(s, <<Word(CmdCheck)>>) /\ WellFormed(usersFile, s)) =>
              /\ last'.resp.kind = "status"
              /\ [status |-> last'.resp.status, n |-> last'.resp.n]
                   = RefStatus(ExpireDay(usersFile, s), Today)
     /\ (MessageStep(CmdList) /\ last'.resp.kind = "list") =>
          \A u \in Ids : WellFormed(usersFile, u) =>
            last'.resp.list[u] = RefStatus(ExpireDay(usersFile, u), Today)]_vars

\* C5: check-expiry from a sender with no record returns the "no record"
\* message and leaves the users document as it was.
C5_NoRecordNoCreate ==
  [][MessageStep(CmdCheck) =>
       \A s \in Ids :
         (ProcessMessage(s, <<Word(CmdCheck)>>) /\ ~HasRecord(usersFile, s)) =>
           (last'.resp.kind = "no_record" /\ usersFile' = usersFile)]_vars

\* "no record" was answered while the document holds another user's record
C5_Witness ==
  /\ last.cmd = CmdCheck
  /\ last.resp.kind = "no_record"
  /\ DOMAIN Users # {}
  /\ DOMAIN Users # Ids

C7_StartIdempotent ==
  [][running =>
       \A l \in Slots :
         StartReminderTask(l) =>
           /\ loops' = loops
           /\ sentDay' = sentDay
           /\ running'
           /\ last'.resp.kind = "start_returned"]_vars

\* start returned at once while a loop sleeps
C7_Witness ==
  /\ last.op = "start"
  /\ last.resp.kind = "start_returned"
  /\ running
  /\ \E l \in Slots : loops[l].pc = "sleep"

\* C8: a loop that was running when stop_reminder_task was called exits when
\* its sleep completes and begins no further iteration, whatever happens
\* before the sleep ends.
C8_StoppedLoopExits == \A l \in Slots : ~loops[l].rescanned

Matching ==
  \/ get_expiring_users(usersFile, 3, now) # {}
  \/ get_expiring_users(usersFile, 0, now) # {}
  \/ (get_expired_users(usersFile, 1, now) # {} /\ admins # <<>>)

\* loop l begins an iteration in this step
IterationStart(l) ==
  \/ loops[l].pc = "sleep" /\ running /\ LoopWake(l)
  \/ ~running /\ (TaskBegin(l) \/ StartReminderTask(l))

\* C10: an iteration goes by the reminder_enabled config.json holds when it
\* begins: when that is false it dispatches nothing and the loop sleeps, when
\* it is true the scan runs, so a settings save takes effect at the next
\* iteration.
C10_FreshConfigGate ==
  [][\A l \in Slots :
       IterationStart(l) =>
         IF GetReminderEnabled(load_config(configFile))
           THEN Matching => loops'[l].sent # {}
           ELSE /\ loops'[l].pc = "sleep"
                /\ loops'[l].sent = {}
                /\ sentDay' = sentDay]_vars

\* an iteration ran at this tick with reminders disabled and users to notify,
\* and nothing was dispatched today
C10_Witness ==
  /\ ~GetReminderEnabled(load_config(configFile))
  /\ Matching
  /\ sentDay = {}
  /\ \E l \in Slots : loops[l].pc = "sleep" /\ loops[l].wake = now + Days(1)

\* the sends a coroutine can be suspended at
SendPcs == {"send3", "send0", "sendP"}

\* C11: an exception raised during a scan or a dispatch never terminates the
\* reminder loop: an iteration that begins while the flag is true leaves the
\* loop alive; when it raises, the loop sleeps the fixed 24 hours; the
\* iteration after a failed one scans and dispatches as usual; and a send
\* that fails leaves the loop alive.
C11_LoopSurvivesExceptions ==
  [][\A l \in Slots :
       /\ IterationStart(l) =>
            /\ loops'[l].pc # "unused"
            /\ GetRaises(load_config(configFile)) =>
                 /\ loops'[l].pc = "sleep"
                 /\ loops'[l].wake = now + Days(1)
                 /\ loops'[l].raised
            /\ (/\ loops[l].raised
                /\ ~GetRaises(load_config(configFile))
                /\ GetReminderEnabled(load_config(configFile))
                /\ Matching) => loops'[l].sent # {}
       /\ (running /\ LoopResumeFailed(l)) => loops'[l].pc # "unused"]_vars

\* the iteration after one that raised has dispatched a notice
C11_Witness ==
  \E l \in Slots : loops[l].raised /\ loops[l].sent # {} /\ running

\* the days a query date can denote
QueryDays == (0 - MaxExpire - 3)..(MaxExpire + 3)
Malformed(file, u) == HasRecord(file, u) /\ StrptimeFails(load_users(file)[u].expire_date)

\* C12: a record whose stored expire_date does not parse makes check-expiry
\* answer the date-format error (and change nothing), is returned by no
\* exact-date query, whatever the day asked for, and no notice of a scan is
\* about such a record.
C12_MalformedDate ==
  /\ [](\A u \in Ids : Malformed(usersFile, u) =>
          /\ \A d \in QueryDays : u \notin get_users_by_expire_date(usersFile, OkDate(d))
          /\ \A t \in 0..MaxTime :
               /\ u \notin get_expiring_users(usersFile, 3, t)
               /\ u \notin get_expiring_users(usersFile, 0, t)
               /\ u \notin get_expired_users(usersFile, 1, t))
  /\ [](\A l \in Slots : \A m \in loops[l].sent : ~StrptimeFails(m.exp))
  /\ [][MessageStep(CmdCheck) =>
         \A s \in Ids :
           (ProcessMessage(s, <<Word(CmdCheck)>>) /\ Malformed(usersFile, s)) =>
             /\ last'.resp.kind = "status"
             /\ last'.resp.status = "date_error"
             /\ usersFile' = usersFile]_vars

\* check-expiry answered the date-format error while a scan of the same
\* document is under way that has notified about the other user only
C12_Witness ==
  /\ last.cmd = CmdCheck
  /\ last.resp.status = "date_error"
  /\ Malformed(usersFile, "u1")
  /\ \E l \in Slots :
       /\ loops[l].pc = "sendP"
       /\ loops[l].pending = <<>>
       /\ loops[l].cur.day = Today
       /\ \A m \in loops[l].sent : m.user = "u2"

\* the records of a document whose expire_date is the "%Y-%m-%d" text of day d
WrittenAs(file, d) ==
  {u \in Ids : HasRecord(file, u) /\ load_users(file)[u].expire_date = OkDate(d)}

\* C13: get_users_by_expire_date(d) returns exactly the records whose
\* expire_date is the string d, none of another day and none missing, and at
\* every time of day D get_expiring_users(3) returns exactly those written as
\* D+3 and get_expired_users(1) exactly those written as D-1.
C13_ExactDate ==
  /\ \A d \in QueryDays :
       /\ get_users_by_expire_date(usersFile, OkDate(d)) = WrittenAs(usersFile, d)
       /\ \A u \in get_users_by_expire_date(usersFile, OkDate(d)) :
            ~StrptimeFails(Users[u].expire_date) /\ ExpireDay(usersFile, u) = d
  /\ \A t \in 0..MaxTime :
       /\ get_expiring_users(usersFile, 3, t) = WrittenAs(usersFile, Day(t) + 3)
       /\ get_expiring_users(usersFile, 0, t) = WrittenAs(usersFile, Day(t))
       /\ get_expired_users(usersFile, 1, t) = WrittenAs(usersFile, Day(t) - 1)

\* not at midnight, the 3-day query returns one of two records and a scan has
\* notified about it
C13_Witness ==
  /\ now % TicksPerDay # 0
  /\ DOMAIN Users = Ids
  /\ get_expiring_users(usersFile, 3, now) = {"u1"}
  /\ get_expired_users(usersFile, 1, now) = {}
  /\ \E l \in Slots :
       /\ loops[l].pc = "send3"
       /\ loops[l].sent = {Notice(3, [user |-> "u1", exp |-> OkDate(Today + 3),
                                      day |-> Today], Group)}

\* the validation failures of set-username and extend, read off the message:
\* sender not admin, fewer than two tokens, a day count that is no number or
\* not positive, no mention
NoMention(m) == \A i \in 1..Len(m) : m[i].k \notin {"cq", "at"}
ValidationFailure(s, m) ==
  \/ NotInAdmins(s)
  \/ Len(m) < 2
  \/ Lower(m[1].s) = CmdExtend /\ (m[2].k # "num" \/ m[2].n <= 0)
  \/ NoMention(m)
ErrorKinds ==
  {"denied", "yhm_format", "extend_format", "days_not_number",
   "days_not_positive", "need_at"}

\* C14: a set-username or extend command with a validation failure returns
\* one of the error strings and leaves the users document unchanged, and one
\* without a validation failure is carried out.
C14_ValidationErrors ==
  [][(MessageStep(CmdExtend) \/ MessageStep(CmdYhm)) =>
       \A s \in Ids, m \in ExtendMsgs \cup YhmMsgs :
         ProcessMessage(s, m) =>
           IF ValidationFailure(s, m)
             THEN last'.resp.kind \in ErrorKinds /\ usersFile' = usersFile
             ELSE last'.resp.kind \in {"extend_ok", "yhm_ok"}]_vars

\* an admin's extend by 0 days was refused while the document holds a record
C14_Witness ==
  /\ last.cmd = CmdExtend
  /\ last.wasAdmin
  /\ last.resp.kind = "days_not_positive"
  /\ DOMAIN Users # {}

InvalidUsersJson(st) == "users_json" \in DOMAIN st /\ ~st.users_json.valid

\* C15: save_settings with a users_json blob that is not valid JSON returns
\* the failure result and leaves users.json, config.json, self.config and
\* self.admins as they were, also when the call carries a config.
C15_InvalidBlobNoChange ==
  [][last'.op = "save_settings" =>
       \A st \in SettingsCmd :
         (InvalidUsersJson(st) /\ SaveSettings(st)) =>
           /\ last'.resp.kind = "json_error"
           /\ UNCHANGED <<usersFile, configFile, config, admins>>]_vars

\* a call with an invalid blob and a config failed after an earlier call had
\* stored another config and a users document
C15_Witness ==
  /\ last.op = "save_settings"
  /\ last.resp.kind = "json_error"
  /\ config = CfgAdmin
  /\ configFile = JsonDoc(CfgAdmin)
  /\ admins = <<"u1">>
  /\ DOMAIN Users # {}

\* the private notices a coroutine has dispatched in its current scan, the
\* recipients of those about user u, the users still waiting in its list
Private(lp) == {m \in lp.sent : m.off = -1}
Recipients(lp, u) == {m.rcpt : m \in {x \in Private(lp) : x.user = u}}
Waiting(lp) == {lp.pending[i].user : i \in 1..Len(lp.pending)}

\* loop l comes to the expired scan in this step: it was not in it, and it is
\* now, or it sleeps after an iteration that was enabled and did not raise
ReachesExpiredScan(l) ==
  /\ loops[l].pc # "sendP"
  /\ loops'[l] # loops[l]
  /\ loops'[l].pc \in {"sendP", "sleep"}
  /\ ~loops'[l].raised
  /\ \/ loops[l].pc \in {"send3", "send0"}
     \/ /\ ~GetRaises(load_config(configFile))
        /\ GetReminderEnabled(load_config(configFile))

\* C16: the expired scan of an enabled iteration on day D takes exactly the
\* records written as D-1, whatever expired_check_days holds; every one of
\* them gets one private notice for every id of self.admins as save_settings
\* last set it when the record's turn comes; no private notice is about a
\* record of another date.
C16_ExpiredNotices ==
  /\ [](\A l \in Slots :
          LET lp == loops[l]
          IN  /\ ~lp.dup
              /\ \A m \in Private(lp) :
                   m.exp = OkDate(m.day - 1) /\ m.user \in lp.plan
              /\ lp.pc = "sendP" =>
                   /\ lp.plan = {tr.user : tr \in lp.turns} \cup Waiting(lp)
                   /\ \A tr \in lp.turns :
                        IF tr.user = lp.cur.user
                          THEN /\ Recipients(lp, tr.user) \cup Range(lp.admq)
                                    = Range(tr.adms)
                               /\ Recipients(lp, tr.user) \cap Range(lp.admq) = {}
                          ELSE Recipients(lp, tr.user) = Range(tr.adms))
  /\ [][\A l \in Slots :
          /\ ReachesExpiredScan(l) =>
               IF loops'[l].pc = "sendP"
                 THEN /\ loops'[l].plan = WrittenAs(usersFile, Today - 1)
                      /\ admins # <<>>
                 ELSE WrittenAs(usersFile, Today - 1) = {} \/ admins = <<>>
          /\ \A tr \in loops'[l].turns \ loops[l].turns : tr.adms = admins]_vars

\* with expired_check_days = 2, a scan has sent every one of two admins a
\* notice about each of two users who expired yesterday
C16_Witness ==
  /\ config = CfgTwo
  /\ \E l \in Slots :
       /\ loops[l].pc = "sendP"
       /\ loops[l].pending = <<>>
       /\ loops[l].admq = <<>>
       /\ loops[l].plan = Ids
       /\ \A u \in Ids : Recipients(loops[l], u) = Ids

\* C17: no record update is lost.  The users document is written by command
\* handlers and settings saves only, never by a step of a reminder loop, and a
\* command's load-modify-save is one step: the document after an extend is
\* the document as it was immediately before with the target's record
\* upserted, every other record as the last write left it, also while reminder
\* loops are suspended in their sends with lists they loaded earlier.
C17_NoLostUpdate ==
  [][/\ usersFile' # usersFile => (loops' = loops /\ running' = running)
     /\ MessageStep(CmdExtend) =>
          \A s \in Ids, m \in MsgsLoop :
            (ProcessMessage(s, m) /\ last'.resp.kind = "extend_ok") =>
              LET u == extract_at_user(m)
              IN  /\ DOMAIN Users' = DOMAIN Users \cup {u}
                  /\ \A v \in DOMAIN Users : v # u => Users'[v] = Users[v]
                  /\ Users'[u].expire_date = RefExpire(usersFile, u, m[2].n, Today)
                  /\ Users'[u].start_date = RefStart(usersFile, u, Today)
                  /\ HasRecord(usersFile, u) =>
                       Users'[u].platform_username = Users[u].platform_username]_vars

\* an extend was carried out while a loop is suspended at the send of a
\* notice about the record as it was, and the other user's record, stored by
\* a settings save, is still there
C17_Witness ==
  /\ last.resp.kind = "extend_ok"
  /\ DOMAIN Users = Ids
  /\ Users["u1"] = UsersDue["u1"]
  /\ Users["u2"].expire_date = last.resp.date
  /\ \E l \in Slots :
       /\ loops[l].pc = "send0"
       /\ \E m \in loops[l].sent :
            m.user = "u2" /\ m.exp # Users["u2"].expire_date

\* what a coroutine suspended at a send has still to dispatch in this
\* iteration, read off the code: the key of its next notice, or none
TodayList == ListOf(get_expiring_users(usersFile, 0, now))
ExpiredList == ListOf(get_expired_users(usersFile, 1, now))
NoKey == [off |-> 0, user |-> NoAt, rcpt |-> NoAt]
Key(off, user, rcpt) == [off |-> off, user |-> user, rcpt |-> rcpt]
FirstExpiredKey ==
  IF ExpiredList # <<>> /\ admins # <<>>
    THEN Key(-1, ExpiredList[1], admins[1]) ELSE NoKey
FirstTodayKey ==
  IF TodayList # <<>> THEN Key(0, TodayList[1], Group) ELSE FirstExpiredKey
NextKey(lp) ==
  IF lp.pc = "send3"
    THEN IF lp.pending # <<>> THEN Key(3, lp.pending[1].user, Group)
         ELSE FirstTodayKey
  ELSE IF lp.pc = "send0"
    THEN IF lp.pending # <<>> THEN Key(0, lp.pending[1].user, Group)
         ELSE FirstExpiredKey
  ELSE IF lp.admq # <<>> THEN Key(-1, lp.cur.user, lp.admq[1])
  ELSE IF lp.pending # <<>> /\ admins # <<>>
    THEN Key(-1, lp.pending[1].user, admins[1])
  ELSE NoKey

\* C18: a send that fails does not abort the scan: when the host's send call
\* has raised, the coroutine dispatches the notice that comes next, for the
\* next user of the same scan or the first user of the next scan that has
\* one, and it goes to its sleep only when the iteration has nothing left to
\* dispatch.
C18_FailedSendContinues ==
  [][\A l \in Slots :
       LoopResumeFailed(l) =>
         IF NextKey(loops[l]) = NoKey
           THEN loops'[l].pc = "sleep"
           ELSE /\ loops'[l].pc \in SendPcs
                /\ {DayKey(m) : m \in loops'[l].sent \ loops[l].sent}
                     = {NextKey(loops[l])}]_vars

\* the send of the 3-day notice failed and the notice of the next scan, for
\* the user who expires today, has been dispatched
C18_Witness ==
  /\ last.op = "send"
  /\ last.resp.kind = "send_failed"
  /\ \E l \in Slots :
       /\ loops[l].pc = "send0"
       /\ {DayKey(m) : m \in loops[l].sent} = {Key(3, "u1", Group), Key(0, "u2", Group)}

\* C19: no command and no step of the reminder loop removes a record or
\* changes the start_date of a record that exists (only a settings save, which
\* replaces the document, can), and set-username leaves the expire_date of
\* every record that exists as it was.
C19_RecordsKept ==
  [][/\ (usersFile' # usersFile /\ ~\E st \in SettingsAll : SaveSettings(st)) =>
          \A u \in DOMAIN Users :
            /\ u \in DOMAIN Users'
            /\ Users'[u].start_date = Users[u].start_date
     /\ MessageStep(CmdYhm) =>
          \A u \in DOMAIN Users :
            /\ u \in DOMAIN Users'
            /\ Users'[u].expire_date = Users[u].expire_date
            /\ Users'[u].start_date = Users[u].start_date]_vars

\* after an extend of the record a settings save stored with start_date -20
\* and a set-username that created the other user's record the day before, a
\* scan has notified about that user and a set-username was handled again
C19_Witness ==
  /\ DOMAIN Users = Ids
  /\ Users["u2"].start_date = OkDate(-20)
  /\ Users["u2"].expire_date.d > Today
  /\ Users["u1"].platform_username = "bob"
  /\ Users["u1"].start_date = OkDate(0)
  /\ Users["u1"].expire_date = OkDate(0)
  /\ last.cmd = CmdYhm
  /\ last.resp.kind = "yhm_ok"
  /\ Today = 1
  /\ \E l \in Slots : \E m \in loops[l].sent : m.user = "u1" /\ m.off = -1

\* the loop instances that run a further scan as things stand: those alive,
\* in a send or in their sleep, while the flag their while test reads is true
LiveLoops == {l \in Slots : loops[l].pc \in SendPcs \cup {"sleep"}}
WillScanAgain == IF running THEN LiveLoops ELSE {}

\* C20: at most one reminder loop is active at any time: whatever calls of
\* start_reminder_task and stop_reminder_task came between the sleeps, there
\* is never more than one loop instance that will run a further scan.
C20_AtMostOneLoop == Cardinality(WillScanAgain) <= 1

====
